---- MODULE Spec2Model ----
(***************************************************************************)
(* Verification model of the relay wire codec (relay/src/protocol.rs), of  *)
(* the peer channel sealing (client/src/lib.rs) and of the relay dispatch  *)
(* between two clients.                                                    *)
(*                                                                         *)
(* Byte strings are sequences of naturals in 0..255.  Integers are written *)
(* little-endian in their real width (u16: 2 bytes, u32: 4 bytes, usize:   *)
(* the pointer width of the build, 4 bytes on wasm32 and 8 elsewhere).     *)
(***************************************************************************)
EXTENDS Integers, Sequences, FiniteSets, TLC

VARIABLES
    ptr,        \* pointer width in bytes of the build under study
    msg,        \* message last handed to encode
    enc,        \* result of that encode call
    wire,       \* buffer currently handed to decode
    dec,        \* result of the last decode call
    reenc,      \* result of re-encoding the last decoded message
    counts_failed,  \* whether the cipher of the build advances its nonce
                    \* on a failed open
    peer,       \* the ProtocolState each client holds for the other one
    net,        \* envelopes sealed so far, each of them still deliverable
    last,       \* the last call of encrypt_ / decrypt_peer_channel
    connected,  \* clients in the registry of the relay server
    uplink,     \* per client, the request frames on their way to the server
    outbound,   \* per client, the outbound queue the server keeps for it
    inbox,      \* per client, the responses it has received and decoded
    sends       \* requests sent so far

codecVars == <<ptr, msg, enc, wire, dec, reenc>>

noiseVars == <<counts_failed, peer, net, last>>

relayVars == <<connected, uplink, outbound, inbox, sends>>

vars ==
    <<ptr, msg, enc, wire, dec, reenc, counts_failed, peer, net, last,
      connected, uplink, outbound, inbox, sends>>

----------------------------------------------------------------------------
(* Bounds of the model *)

\* Stand-in for max_buffer_size = 1024 * 32: every length is scaled so that
\* buffers on both sides of the limit stay small.
MaxBufferSize == 16

\* Stand-in for the cipher's MAXMSGLEN = 65535, scaled like the payloads.
MaxMsgLen == 18

\* Envelopes the two clients may seal.
MaxSeals == 2

\* Requests the clients may send to the relay server.
MaxSends == 2

----------------------------------------------------------------------------
(* mod types: protocol.rs 17-26 *)

HANDSHAKE_TYPE_SERVER == 1
HANDSHAKE_TYPE_PEER == 2

NOOP == 0
ERROR == 1
HANDSHAKE_INITIATOR == 2
HANDSHAKE_RESPONDER == 3
RELAY_PEER == 4

----------------------------------------------------------------------------
(* Little-endian integers *)

RECURSIVE LE(_, _)
LE(n, w) == IF w = 0 THEN <<>> ELSE <<n % 256>> \o LE(n \div 256, w - 1)

RECURSIVE FromLE(_)
FromLE(s) == IF s = <<>> THEN 0 ELSE s[1] + 256 * FromLE(Tail(s))

Fill(n, b) == [i \in 1..n |-> b]

\* TLC integers end at 2^31 - 1.  A usize is therefore kept as the string
\* of its base-256 digits, least significant first and without leading
\* zero digits, which holds every value of either pointer width.
RECURSIVE Norm(_)
Norm(s) ==
    IF s = <<>> THEN <<>>
    ELSE IF s[Len(s)] = 0 THEN Norm(SubSeq(s, 1, Len(s) - 1))
    ELSE s

Usize(n) == Norm(LE(n, 4))

\* the digits of x in a field of width bytes (x has at most width digits)
Pad(x, width) == x \o Fill(width - Len(x), 0)

\* A u32 at or above 2^31 is read as 2^31 - 1: its only consumer,
\* read_bytes, refuses it like every length above max_buffer_size.
U32(s) == IF s[4] >= 128 THEN 2147483647 ELSE FromLE(s)

----------------------------------------------------------------------------
(* BinaryWriter: a writer is [ok, bytes, panic]; a failed write leaves the  *)
(* writer failed, as the ? operator returns from encode at the first       *)
(* error.                                                                  *)

NewWriter == [ok |-> TRUE, bytes |-> <<>>, panic |-> FALSE]

write_fixed(w, n, width) ==
    IF ~w.ok THEN w ELSE [w EXCEPT !.bytes = @ \o LE(n, width)]

write_u8(w, n) == write_fixed(w, n, 1)
write_u16(w, n) == write_fixed(w, n, 2)
write_u32(w, n) == write_fixed(w, n, 4)
write_usize(w, x, pw) ==
    IF ~w.ok THEN w ELSE [w EXCEPT !.bytes = @ \o Pad(x, pw)]

\* write_bytes refuses a slice longer than max_buffer_size
write_bytes(w, data) ==
    IF ~w.ok THEN w
    ELSE IF Len(data) > MaxBufferSize THEN [w EXCEPT !.ok = FALSE]
    ELSE [w EXCEPT !.bytes = @ \o data]

\* write_string: u32 byte length, then the bytes of the string
write_string(w, s) ==
    IF ~w.ok THEN w
    ELSE IF Len(s) > MaxBufferSize THEN [w EXCEPT !.ok = FALSE]
    ELSE [w EXCEPT !.bytes = @ \o LE(Len(s), 4) \o s]

unreachable(w) == IF ~w.ok THEN w ELSE [w EXCEPT !.ok = FALSE, !.panic = TRUE]

----------------------------------------------------------------------------
(* BinaryReader: a reader is [ok, buf, pos, val, err, tag]; pos counts the  *)
(* bytes consumed, val is the value last read.                             *)

NewReader(b) ==
    [ok |-> TRUE, buf |-> b, pos |-> 0, val |-> 0, err |-> "none", tag |-> 0]

Fail(r, kind, t) == [r EXCEPT !.ok = FALSE, !.err = kind, !.tag = t]

\* the next width bytes, or UnexpectedEof when the buffer ends before
read_exact(r, width) ==
    IF ~r.ok THEN r
    ELSE IF r.pos + width > Len(r.buf) THEN Fail(r, "UnexpectedEof", 0)
    ELSE [r EXCEPT !.val = SubSeq(r.buf, r.pos + 1, r.pos + width),
                   !.pos = r.pos + width]

read_fixed(r, width) ==
    LET r1 == read_exact(r, width)
    IN  IF ~r1.ok THEN r1 ELSE [r1 EXCEPT !.val = FromLE(@)]

read_u8(r) == read_fixed(r, 1)
read_u16(r) == read_fixed(r, 2)

read_u32(r) ==
    LET r1 == read_exact(r, 4)
    IN  IF ~r1.ok THEN r1 ELSE [r1 EXCEPT !.val = U32(@)]

read_usize(r, pw) ==
    LET r1 == read_exact(r, pw)
    IN  IF ~r1.ok THEN r1 ELSE [r1 EXCEPT !.val = Norm(@)]

\* read_bytes refuses a length above max_buffer_size before it allocates
read_bytes(r, n) ==
    IF ~r.ok THEN r
    ELSE IF n > MaxBufferSize THEN Fail(r, "BufferSize", 0)
    ELSE read_exact(r, n)

\* String::from_utf8 over the byte alphabet of the model: a byte below 128
\* is a one-byte character, 255 never occurs in UTF-8
Utf8Valid(s) == \A i \in 1..Len(s) : s[i] < 128

read_string(r) ==
    LET r1 == read_u32(r)
        r2 == read_bytes(r1, r1.val)
    IN  IF ~r2.ok THEN r2
        ELSE IF ~Utf8Valid(r2.val) THEN Fail(r2, "InvalidUtf8", 0)
        ELSE r2

----------------------------------------------------------------------------
(* HandshakeType: protocol.rs 57-110 *)

HandshakeTypes == {"Server", "Peer"}

\* every kind written as a server handshake
HandshakeType_to_u8_Mutant(kind) == HANDSHAKE_TYPE_SERVER

HandshakeType_to_u8(kind) ==
    IF kind = "Server" THEN HANDSHAKE_TYPE_SERVER ELSE HANDSHAKE_TYPE_PEER

HandshakeType_encode(w, kind) == write_u8(w, HandshakeType_to_u8(kind))

\* on success val holds the decoded kind
HandshakeType_decode(r) ==
    LET r1 == read_u8(r)
        id == r1.val
    IN  IF ~r1.ok THEN r1
        ELSE IF id = HANDSHAKE_TYPE_SERVER THEN [r1 EXCEPT !.val = "Server"]
        ELSE IF id = HANDSHAKE_TYPE_PEER THEN [r1 EXCEPT !.val = "Peer"]
        ELSE Fail(r1, "MessageKind", id)

----------------------------------------------------------------------------
(* Messages.  A value of either enum is a record with a variant field.     *)

Noop == [variant |-> "Noop"]

HandshakeInitiator(kind, len, buf) ==
    [variant |-> "HandshakeInitiator", kind |-> kind, len |-> len, buf |-> buf]

HandshakeResponder(kind, len, buf) ==
    [variant |-> "HandshakeResponder", kind |-> kind, len |-> len, buf |-> buf]

RelayPeer(public_key, message) ==
    [variant |-> "RelayPeer", public_key |-> public_key, message |-> message]

Error(code, message) ==
    [variant |-> "Error", code |-> code, message |-> message]

RequestMessage_to_u8(m) ==
    CASE m.variant = "Noop" -> NOOP
      [] m.variant = "HandshakeInitiator" -> HANDSHAKE_INITIATOR
      [] m.variant = "RelayPeer" -> RELAY_PEER

ResponseMessage_to_u8(m) ==
    CASE m.variant = "Noop" -> NOOP
      [] m.variant = "Error" -> ERROR
      [] m.variant = "HandshakeResponder" -> HANDSHAKE_RESPONDER
      [] m.variant = "RelayPeer" -> RELAY_PEER

\* the body shared by HandshakeInitiator and HandshakeResponder
write_handshake(w, m, pw) ==
    write_bytes(
        write_u32(
            write_usize(HandshakeType_encode(w, m.kind), m.len, pw),
            Len(m.buf)),
        m.buf)

\* the body shared by both RelayPeer variants
write_relay(w, m) ==
    write_bytes(
        write_u32(
            write_bytes(write_u32(w, Len(m.public_key)), m.public_key),
            Len(m.message)),
        m.message)

\* the Noop arm returns instead of aborting
RequestMessage_encode_Mutant(m, pw) ==
    LET w == write_u8(NewWriter, RequestMessage_to_u8(m))
    IN  CASE m.variant = "HandshakeInitiator" -> write_handshake(w, m, pw)
          [] m.variant = "RelayPeer" -> write_relay(w, m)
          [] m.variant = "Noop" -> w

RequestMessage_encode(m, pw) ==
    LET w == write_u8(NewWriter, RequestMessage_to_u8(m))
    IN  CASE m.variant = "HandshakeInitiator" -> write_handshake(w, m, pw)
          [] m.variant = "RelayPeer" -> write_relay(w, m)
          [] m.variant = "Noop" -> unreachable(w)

\* the RelayPeer arm writes the message before the public key
ResponseMessage_encode_Mutant(m, pw) ==
    LET w == write_u8(NewWriter, ResponseMessage_to_u8(m))
    IN  CASE m.variant = "Error" ->
               write_string(write_u16(w, m.code), m.message)
          [] m.variant = "HandshakeResponder" -> write_handshake(w, m, pw)
          [] m.variant = "RelayPeer" ->
               write_relay(w, RelayPeer(m.message, m.public_key))
          [] m.variant = "Noop" -> unreachable(w)

ResponseMessage_encode(m, pw) ==
    LET w == write_u8(NewWriter, ResponseMessage_to_u8(m))
    IN  CASE m.variant = "Error" ->
               write_string(write_u16(w, m.code), m.message)
          [] m.variant = "HandshakeResponder" -> write_handshake(w, m, pw)
          [] m.variant = "RelayPeer" -> write_relay(w, m)
          [] m.variant = "Noop" -> unreachable(w)

\* A decoder returns [r, msg]: the reader after the call and the message
\* assigned to *self (Noop, the default, when decoding failed).

\* the declared len, not the u32 prefix, decides how many bytes are read
read_handshake_Mutant(r, pw, variant) ==
    LET r1 == HandshakeType_decode(r)
        r2 == read_usize(r1, pw)
        r3 == read_u32(r2)
        r4 == read_bytes(r3, IF Len(r2.val) > 3 THEN 2147483647 ELSE FromLE(r2.val))
    IN  IF r4.ok
        THEN [r |-> r4,
              msg |-> [variant |-> variant, kind |-> r1.val,
                       len |-> r2.val, buf |-> r4.val]]
        ELSE [r |-> r4, msg |-> Noop]

read_handshake(r, pw, variant) ==
    LET r1 == HandshakeType_decode(r)
        r2 == read_usize(r1, pw)
        r3 == read_u32(r2)
        r4 == read_bytes(r3, r3.val)
    IN  IF r4.ok
        THEN [r |-> r4,
              msg |-> [variant |-> variant, kind |-> r1.val,
                       len |-> r2.val, buf |-> r4.val]]
        ELSE [r |-> r4, msg |-> Noop]

read_relay(r) ==
    LET r1 == read_u32(r)
        r2 == read_bytes(r1, r1.val)
        r3 == read_u32(r2)
        r4 == read_bytes(r3, r3.val)
    IN  IF r4.ok
        THEN [r |-> r4, msg |-> RelayPeer(r2.val, r4.val)]
        ELSE [r |-> r4, msg |-> Noop]

\* StatusCode::try_from(u16) accepts 100..=999
read_error(r) ==
    LET r1 == read_u16(r)
        r2 == IF r1.ok /\ ~(r1.val >= 100 /\ r1.val < 1000)
              THEN Fail(r1, "InvalidStatusCode", 0) ELSE r1
        r3 == read_string(r2)
    IN  IF r3.ok
        THEN [r |-> r3, msg |-> Error(r1.val, r3.val)]
        ELSE [r |-> r3, msg |-> Noop]

RequestMessage_decode(r, pw) ==
    LET r1 == read_u8(r)
        id == r1.val
    IN  IF ~r1.ok THEN [r |-> r1, msg |-> Noop]
        ELSE IF id = HANDSHAKE_INITIATOR
             THEN read_handshake(r1, pw, "HandshakeInitiator")
        ELSE IF id = RELAY_PEER THEN read_relay(r1)
        ELSE [r |-> Fail(r1, "MessageKind", id), msg |-> Noop]

\* an unknown tag leaves the default message and succeeds
ResponseMessage_decode_Mutant(r, pw) ==
    LET r1 == read_u8(r)
        id == r1.val
    IN  IF ~r1.ok THEN [r |-> r1, msg |-> Noop]
        ELSE IF id = ERROR THEN read_error(r1)
        ELSE IF id = HANDSHAKE_RESPONDER
             THEN read_handshake(r1, pw, "HandshakeResponder")
        ELSE IF id = RELAY_PEER THEN read_relay(r1)
        ELSE [r |-> r1, msg |-> Noop]

ResponseMessage_decode(r, pw) ==
    LET r1 == read_u8(r)
        id == r1.val
    IN  IF ~r1.ok THEN [r |-> r1, msg |-> Noop]
        ELSE IF id = ERROR THEN read_error(r1)
        ELSE IF id = HANDSHAKE_RESPONDER
             THEN read_handshake(r1, pw, "HandshakeResponder")
        ELSE IF id = RELAY_PEER THEN read_relay(r1)
        ELSE [r |-> Fail(r1, "MessageKind", id), msg |-> Noop]

----------------------------------------------------------------------------
(* encode / decode: protocol.rs 36-55.  side is the type parameter:        *)
(* "request" for RequestMessage, "response" for ResponseMessage.           *)

NoMessage == [variant |-> "none"]

NoEncode == [status |-> "none", bytes |-> <<>>]

NoDecode ==
    [status |-> "none", side |-> "none", input |-> <<>>, msg |-> NoMessage,
     pos |-> 0, err |-> "none", tag |-> 0]

\* status "panic": the call aborts in unreachable!() and returns nothing
encode(m, side, pw) ==
    LET w == IF side = "request" THEN RequestMessage_encode(m, pw)
             ELSE ResponseMessage_encode(m, pw)
    IN  IF w.panic THEN [status |-> "panic", bytes |-> <<>>]
        ELSE IF w.ok THEN [status |-> "ok", bytes |-> w.bytes]
        ELSE [status |-> "err", bytes |-> <<>>]

decode(buffer, side, pw) ==
    LET d == IF side = "request"
             THEN RequestMessage_decode(NewReader(buffer), pw)
             ELSE ResponseMessage_decode(NewReader(buffer), pw)
    IN  IF d.r.ok
        THEN [status |-> "ok", side |-> side, input |-> buffer, msg |-> d.msg,
              pos |-> d.r.pos, err |-> "none", tag |-> 0]
        ELSE [status |-> "err", side |-> side, input |-> buffer,
              msg |-> NoMessage, pos |-> d.r.pos, err |-> d.r.err,
              tag |-> d.r.tag]

----------------------------------------------------------------------------
(* The Noise transport cipher behind TransportState.  The AEAD is ideal:   *)
(* the tag is an injective function of key, nonce and ciphertext, so an    *)
(* open succeeds only on the very bytes a seal under that key and nonce    *)
(* produced.                                                               *)

TAGLEN == 16

Zeros(n) == Fill(n, 0)

\* byte i of the keystream under key k and nonce n
KeyStream(k, n, i) == (k + 7 * n + i) % 256

Encrypt(k, n, pt) == [i \in 1..Len(pt) |-> (pt[i] + KeyStream(k, n, i)) % 256]

Decrypt(k, n, ct) ==
    [i \in 1..Len(ct) |-> (ct[i] + 256 - KeyStream(k, n, i)) % 256]

\* the TAGLEN bytes authenticating ciphertext ct under key k and nonce n;
\* two tags over different (k, n, ct) differ, and two sealed messages
\* differ in more than one byte
Mac(k, n, ct) ==
    <<k, n % 256, (k + n) % 256, Len(ct)>>
        \o SubSeq(ct \o Zeros(TAGLEN), 1, TAGLEN - 4)

\* message with its first Len(data) bytes overwritten by data
Overwrite(message, data) ==
    [i \in 1..Len(message) |-> IF i <= Len(data) THEN data[i] ELSE message[i]]

\* TransportState::write_message(payload, message): [ok, len, message, t]
write_message(t, payload, message) ==
    IF Len(payload) + TAGLEN > MaxMsgLen \/ Len(payload) + TAGLEN > Len(message)
    THEN [ok |-> FALSE, len |-> 0, message |-> message, t |-> t]
    ELSE LET ct == Encrypt(t.send_key, t.n_send, payload)
         IN  [ok |-> TRUE,
              len |-> Len(payload) + TAGLEN,
              message |-> Overwrite(message, ct \o Mac(t.send_key, t.n_send, ct)),
              t |-> [t EXCEPT !.n_send = @ + 1]]

\* TransportState::read_message(payload, message): [ok, len, message, t];
\* bump tells whether this cipher counts a failed open in its nonce
read_message(t, payload, message, bump) ==
    IF Len(payload) > MaxMsgLen
    THEN [ok |-> FALSE, len |-> 0, message |-> message, t |-> t]
    ELSE IF Len(payload) < TAGLEN \/ Len(message) < Len(payload) - TAGLEN
    THEN [ok |-> FALSE, len |-> 0, message |-> message, t |-> t]
    ELSE LET ct == SubSeq(payload, 1, Len(payload) - TAGLEN)
             tag == SubSeq(payload, Len(payload) - TAGLEN + 1, Len(payload))
         IN  IF tag # Mac(t.recv_key, t.n_recv, ct)
             THEN [ok |-> FALSE, len |-> 0, message |-> message,
                   t |-> IF bump THEN [t EXCEPT !.n_recv = @ + 1] ELSE t]
             ELSE [ok |-> TRUE,
                   len |-> Len(ct),
                   message |-> Overwrite(message, Decrypt(t.recv_key, t.n_recv, ct)),
                   t |-> [t EXCEPT !.n_recv = @ + 1]]

----------------------------------------------------------------------------
(* ProtocolState: protocol.rs 112-118.  One record for both inhabitants;   *)
(* the key and nonce fields are those of the TransportState and stay 0 in  *)
(* Handshake, hs counts the handshake messages the HandshakeState has      *)
(* written or read.                                                        *)

Clients == {"A", "B"}

Other(c) == IF c = "A" THEN "B" ELSE "A"

Handshake(initiator) ==
    [state |-> "Handshake", initiator |-> initiator, hs |-> 0,
     send_key |-> 0, recv_key |-> 0, n_send |-> 0, n_recv |-> 0]

----------------------------------------------------------------------------
(* encrypt_peer_channel / decrypt_peer_channel: client/src/lib.rs 59-115.  *)
(* A call returns [status, request, plaintext, peer]: the Result and the   *)
(* ProtocolState behind the &mut reference after the call.                 *)

NoRequest == [variant |-> "none"]

SealedEnvelope(length, encoding, payload, broadcast) ==
    [length |-> length, encoding |-> encoding, payload |-> payload,
     broadcast |-> broadcast]

PeerMessage(public_key, session_id, envelope) ==
    [variant |-> "Opaque::PeerMessage", public_key |-> public_key,
     session_id |-> session_id, envelope |-> envelope]

\* the contents buffer is one byte longer than the ciphertext
encrypt_peer_channel_Mutant(public_key, p, payload, encoding, broadcast, session_id) ==
    IF p.state = "Transport"
    THEN LET contents == Zeros(Len(payload) + TAGLEN + 1)
             w == write_message(p, payload, contents)
         IN  IF ~w.ok
             THEN [status |-> "err", request |-> NoRequest, plaintext |-> <<>>,
                   peer |-> w.t]
             ELSE [status |-> "ok",
                   request |-> PeerMessage(public_key, session_id,
                       SealedEnvelope(w.len, encoding, w.message, broadcast)),
                   plaintext |-> <<>>,
                   peer |-> w.t]
    ELSE [status |-> "NotTransportState", request |-> NoRequest,
          plaintext |-> <<>>, peer |-> p]

encrypt_peer_channel(public_key, p, payload, encoding, broadcast, session_id) ==
    IF p.state = "Transport"
    THEN LET contents == Zeros(Len(payload) + TAGLEN)
             w == write_message(p, payload, contents)
         IN  IF ~w.ok
             THEN [status |-> "err", request |-> NoRequest, plaintext |-> <<>>,
                   peer |-> w.t]
             ELSE [status |-> "ok",
                   request |-> PeerMessage(public_key, session_id,
                       SealedEnvelope(w.len, encoding, w.message, broadcast)),
                   plaintext |-> <<>>,
                   peer |-> w.t]
    ELSE [status |-> "NotTransportState", request |-> NoRequest,
          plaintext |-> <<>>, peer |-> p]

\* the tag bytes are not cut off the opened contents
decrypt_peer_channel_NoTruncate(p, envelope, bump) ==
    IF p.state = "Transport"
    THEN IF envelope.length > Len(envelope.payload)
         THEN [status |-> "panic", request |-> NoRequest, plaintext |-> <<>>,
               peer |-> p]
         ELSE LET contents == Zeros(envelope.length)
                  r == read_message(p, SubSeq(envelope.payload, 1, envelope.length),
                                    contents, bump)
              IN  IF ~r.ok
                  THEN [status |-> "err", request |-> NoRequest,
                        plaintext |-> <<>>, peer |-> r.t]
                  ELSE [status |-> "ok", request |-> NoRequest,
                        plaintext |-> r.message, peer |-> r.t]
    ELSE [status |-> "NotTransportState", request |-> NoRequest,
          plaintext |-> <<>>, peer |-> p]

\* a failed open puts the session back into a fresh handshake
decrypt_peer_channel_Reset(p, envelope, bump) ==
    IF p.state = "Transport"
    THEN IF envelope.length > Len(envelope.payload)
         THEN [status |-> "panic", request |-> NoRequest, plaintext |-> <<>>,
               peer |-> p]
         ELSE LET contents == Zeros(envelope.length)
                  r == read_message(p, SubSeq(envelope.payload, 1, envelope.length),
                                    contents, bump)
              IN  IF ~r.ok
                  THEN [status |-> "err", request |-> NoRequest,
                        plaintext |-> <<>>,
                        peer |-> [state |-> "Handshake", initiator |-> p.initiator,
                                  hs |-> 0, send_key |-> 0, recv_key |-> 0,
                                  n_send |-> 0, n_recv |-> 0]]
                  ELSE [status |-> "ok", request |-> NoRequest,
                        plaintext |-> SubSeq(r.message, 1, Len(contents) - TAGLEN),
                        peer |-> r.t]
    ELSE [status |-> "NotTransportState", request |-> NoRequest,
          plaintext |-> <<>>, peer |-> p]

\* the wildcard arm returns an empty plaintext instead of the error
decrypt_peer_channel_NoError(p, envelope, bump) ==
    IF p.state = "Transport"
    THEN IF envelope.length > Len(envelope.payload)
         THEN [status |-> "panic", request |-> NoRequest, plaintext |-> <<>>,
               peer |-> p]
         ELSE LET contents == Zeros(envelope.length)
                  r == read_message(p, SubSeq(envelope.payload, 1, envelope.length),
                                    contents, bump)
              IN  IF ~r.ok
                  THEN [status |-> "err", request |-> NoRequest,
                        plaintext |-> <<>>, peer |-> r.t]
                  ELSE [status |-> "ok", request |-> NoRequest,
                        plaintext |-> SubSeq(r.message, 1, Len(contents) - TAGLEN),
                        peer |-> r.t]
    ELSE [status |-> "ok", request |-> NoRequest, plaintext |-> <<>>, peer |-> p]

\* status "panic": the slice payload[..length] is out of range, or the
\* subtraction contents.len() - TAGLEN underflows
decrypt_peer_channel(p, envelope, bump) ==
    IF p.state = "Transport"
    THEN IF envelope.length > Len(envelope.payload)
         THEN [status |-> "panic", request |-> NoRequest, plaintext |-> <<>>,
               peer |-> p]
         ELSE LET contents == Zeros(envelope.length)
                  r == read_message(p, SubSeq(envelope.payload, 1, envelope.length),
                                    contents, bump)
              IN  IF ~r.ok
                  THEN [status |-> "err", request |-> NoRequest,
                        plaintext |-> <<>>, peer |-> r.t]
                  ELSE IF Len(contents) < TAGLEN
                  THEN [status |-> "panic", request |-> NoRequest,
                        plaintext |-> <<>>, peer |-> r.t]
                  ELSE [status |-> "ok", request |-> NoRequest,
                        plaintext |-> SubSeq(r.message, 1, Len(contents) - TAGLEN),
                        peer |-> r.t]
    ELSE [status |-> "NotTransportState", request |-> NoRequest,
          plaintext |-> <<>>, peer |-> p]

----------------------------------------------------------------------------
(* The two clients and their peer sessions as a state machine *)

\* messages of the handshake pattern (Noise_XX: -> e, <- e ee s es, -> s se)
PatternLen == 3

\* one handshake step of the session p: the next message of the pattern is
\* written or read; when it was the last one the state becomes Transport,
\* with the two cipher keys the handshake agreed on, one per direction
step(p) ==
    IF p.hs + 1 < PatternLen THEN [p EXCEPT !.hs = @ + 1]
    ELSE [state |-> "Transport", initiator |-> p.initiator, hs |-> PatternLen,
          send_key |-> IF p.initiator THEN 11 ELSE 22,
          recv_key |-> IF p.initiator THEN 22 ELSE 11,
          n_send |-> 0, n_recv |-> 0]

PublicKey(c) == IF c = "A" THEN <<65, 1>> ELSE <<66, 2>>

NoEnvelope == SealedEnvelope(0, "none", <<>>, FALSE)

NoCall ==
    [op |-> "none", who |-> "none", before |-> Handshake(TRUE),
     payload |-> <<>>, envelope |-> NoEnvelope, status |-> "none",
     request |-> NoRequest, plaintext |-> <<>>]

\* what the application asks to send; the last payload is over the limit
\* of the cipher
SendInputs ==
    {[payload |-> <<>>, encoding |-> "Blob", broadcast |-> FALSE,
      session_id |-> "None"],
     [payload |-> <<1, 2>>, encoding |-> "Json", broadcast |-> TRUE,
      session_id |-> "Some"],
     [payload |-> Fill(MaxMsgLen - TAGLEN + 1, 7), encoding |-> "Blob",
      broadcast |-> FALSE, session_id |-> "None"]}

\* envelope e with one byte of its ciphertext altered, or with a length
\* field that is not the length of its payload
Altered(e) ==
    {[e EXCEPT !.payload[i] = (@ + 1) % 256] : i \in 1..Len(e.payload)}
    \cup {[e EXCEPT !.length = l] :
            l \in {Len(e.payload) + 1, TAGLEN - 1} \ {e.length}}

\* envelopes made up by the sender
ForgedEnvelopes ==
    {SealedEnvelope(0, "Blob", <<>>, FALSE),
     SealedEnvelope(TAGLEN, "Blob", Zeros(TAGLEN), FALSE)}

\* every envelope a client may be handed: one that was sealed (also for
\* the second time, or ahead of an earlier one), an altered one, a forged one
Deliverable ==
    {e.envelope : e \in net}
    \cup UNION {Altered(e.envelope) : e \in net}
    \cup ForgedEnvelopes

CodecIdle ==
    /\ msg = [side |-> "none", value |-> NoMessage]
    /\ enc = NoEncode
    /\ wire = <<>>
    /\ dec = NoDecode
    /\ reenc = NoEncode

RelayIdle ==
    /\ connected = {}
    /\ uplink = [c \in Clients |-> <<>>]
    /\ outbound = [c \in Clients |-> <<>>]
    /\ inbox = [c \in Clients |-> <<>>]
    /\ sends = 0

NoiseIdle ==
    /\ counts_failed = FALSE
    /\ peer = [c \in Clients |-> Handshake(c = "A")]
    /\ net = {}
    /\ last = NoCall

NoiseInit ==
    /\ ptr = 8
    /\ CodecIdle
    /\ RelayIdle
    /\ counts_failed \in BOOLEAN
    /\ peer = [c \in Clients |-> Handshake(c = "A")]
    /\ net = {}
    /\ last = NoCall

\* client c takes its next handshake step: it writes the next message of
\* the pattern when that is its turn, and reads it once the other client
\* has written it
HandshakeStep(c) ==
    /\ last = NoCall
    /\ peer[c].state = "Handshake"
    /\ \/ peer[c].initiator = (peer[c].hs % 2 = 0)
       \/ peer[Other(c)].hs > peer[c].hs
    /\ peer' = [peer EXCEPT ![c] = step(peer[c])]
    /\ UNCHANGED <<codecVars, counts_failed, net, last, relayVars>>

Seal(c) ==
    /\ last = NoCall
    /\ Cardinality(net) < MaxSeals
    /\ \E in \in SendInputs :
        LET r == encrypt_peer_channel(PublicKey(Other(c)), peer[c], in.payload,
                                      in.encoding, in.broadcast, in.session_id)
        IN  /\ peer' = [peer EXCEPT ![c] = r.peer]
            /\ net' = IF r.status = "ok"
                      THEN net \cup {[from |-> c, nonce |-> peer[c].n_send,
                                      plaintext |-> in.payload,
                                      envelope |-> r.request.envelope]}
                      ELSE net
            /\ last' = [op |-> "encrypt", who |-> c, before |-> peer[c],
                        payload |-> in.payload, envelope |-> NoEnvelope,
                        status |-> r.status, request |-> r.request,
                        plaintext |-> r.plaintext]
    /\ UNCHANGED <<codecVars, counts_failed, relayVars>>

Open(c) ==
    /\ last = NoCall
    /\ peer[c].n_recv < MaxSeals
    /\ \E e \in Deliverable :
        LET r == decrypt_peer_channel(peer[c], e, counts_failed)
        IN  /\ peer' = [peer EXCEPT ![c] = r.peer]
            /\ last' = [op |-> "decrypt", who |-> c, before |-> peer[c],
                        payload |-> <<>>, envelope |-> e,
                        status |-> r.status, request |-> r.request,
                        plaintext |-> r.plaintext]
    /\ UNCHANGED <<codecVars, counts_failed, net, relayVars>>

\* the caller takes the Result of the call and goes on
Return ==
    /\ last # NoCall
    /\ last' = NoCall
    /\ UNCHANGED <<codecVars, counts_failed, peer, net, relayVars>>

NoiseNext ==
    \/ \E c \in Clients : HandshakeStep(c)
    \/ \E c \in Clients : Seal(c)
    \/ \E c \in Clients : Open(c)
    \/ Return

SpecNoise == NoiseInit /\ [][NoiseNext]_vars

----------------------------------------------------------------------------
(* Properties of the peer channel *)

\* the last call was decrypt_peer_channel on a session in Transport
OpenedInTransport == last.op = "decrypt" /\ last.before.state = "Transport"

\* the envelopes the other client sealed for the caller of the last call
SealedForCaller == {rec \in net : rec.from = Other(last.who)}

\* b is a with exactly one byte altered
OneByteAltered(a, b) ==
    /\ Len(a) = Len(b)
    /\ Cardinality({i \in 1..Len(a) : a[i] # b[i]}) = 1

\* if a byte of a sealed ciphertext was altered, the open fails
TamperedOpenFails ==
    OpenedInTransport =>
        \A rec \in SealedForCaller :
            (/\ last.envelope.length = rec.envelope.length
             /\ OneByteAltered(rec.envelope.payload, last.envelope.payload))
            => (last.status = "err" /\ last.plaintext = <<>>)

\* C4 as stated: seal/open inverse.  Between two sessions in Transport
\* after a handshake with each other, opening on one the envelope the other
\* sealed for P returns exactly P, in both directions, and opening it with
\* a byte of the ciphertext altered fails.
C4_SealOpenInverse ==
    /\ OpenedInTransport =>
         \A rec \in SealedForCaller :
            last.envelope = rec.envelope
            => (last.status = "ok" /\ last.plaintext = rec.plaintext)
    /\ TamperedOpenFails

\* C4 as amended: the open returns P when the receive nonce of the opening
\* session is the nonce the envelope was sealed under, that is when the
\* envelopes are opened once each and in the order sealed; an envelope
\* opened again or out of order fails, and so does one with a byte altered.
C4_SealOpenInOrder ==
    /\ OpenedInTransport =>
         \A rec \in SealedForCaller :
            last.envelope = rec.envelope
            => IF rec.nonce = last.before.n_recv
               THEN last.status = "ok" /\ last.plaintext = rec.plaintext
               ELSE last.status = "err" /\ last.plaintext = <<>>
    /\ TamperedOpenFails

\* B opened the second envelope A sealed, after the first, and got <<1, 2>>
C4_Witness ==
    /\ OpenedInTransport
    /\ last.who = "B"
    /\ last.before.n_recv = 1
    /\ last.status = "ok"
    /\ last.plaintext = <<1, 2>>

\* C5: envelope length law.  The envelope in the request that
\* encrypt_peer_channel returns has a payload of len(P) + TAGLEN bytes and
\* a length field equal to that number.
C5_EnvelopeLength ==
    (last.op = "encrypt" /\ last.status = "ok")
    => (/\ last.request.variant = "Opaque::PeerMessage"
        /\ Len(last.request.envelope.payload) = Len(last.payload) + TAGLEN
        /\ last.request.envelope.length = Len(last.payload) + TAGLEN)

\* a two-byte payload was sealed
C5_Witness ==
    /\ last.op = "encrypt"
    /\ last.status = "ok"
    /\ last.payload = <<1, 2>>
    /\ Len(last.request.envelope.payload) = 2 + TAGLEN

\* C6: NotTransportState.  Both calls on a session in Handshake return
\* NotTransportState whatever the payload or envelope, with no request and
\* no plaintext, and leave the session as it was.
C6_NotTransportState ==
    (last.op # "none" /\ last.before.state = "Handshake")
    => (/\ last.status = "NotTransportState"
        /\ last.request = NoRequest
        /\ last.plaintext = <<>>
        /\ peer[last.who] = last.before)

\* decrypt_peer_channel was refused on a session two steps into its handshake
C6_Witness ==
    /\ last.op = "decrypt"
    /\ last.before.state = "Handshake"
    /\ last.before.hs = 2
    /\ last.status = "NotTransportState"
    /\ last.envelope.length = TAGLEN

\* C7: transition monotonicity.  No handshake step, seal or open, failed or
\* not, takes a session that is in Transport back to Handshake; a session
\* therefore enters Transport at most once.
C7_TransportIsFinal ==
    [][\A c \in Clients :
         peer[c].state = "Transport" => peer'[c].state = "Transport"]_vars

\* an open failed on a session in Transport, which is still in Transport
C7_Witness ==
    /\ OpenedInTransport
    /\ last.status = "err"
    /\ peer[last.who].state = "Transport"
    /\ peer[Other(last.who)].state = "Transport"

\* an open aborts only on the slice payload[..length], when the length
\* field is larger than the payload; a length field under TAGLEN is refused
\* by read_message before the subtraction contents.len() - TAGLEN
OpenAbortsOnlyOutOfRange ==
    OpenedInTransport =>
        /\ (last.status = "panic")
             = (last.envelope.length > Len(last.envelope.payload))
        /\ last.envelope.length < TAGLEN => last.status # "ok"
        /\ last.status = "ok"
             => Len(last.plaintext) = last.envelope.length - TAGLEN
        /\ last.status \in {"ok", "err", "panic"}

\* C11: decrypt_peer_channel never aborts.  On a session in Transport the
\* call returns, for every envelope, also one whose length field is larger
\* than its payload or smaller than TAGLEN, either an error or a plaintext
\* of exactly envelope.length - TAGLEN bytes.
C11_OpenNeverAborts ==
    OpenedInTransport =>
        \/ last.status = "err"
        \/ /\ last.status = "ok"
           /\ last.envelope.length >= TAGLEN
           /\ Len(last.plaintext) = last.envelope.length - TAGLEN

----------------------------------------------------------------------------
(* Inputs of the codec *)

PtrWidths == {4, 8}

\* buffers on both sides of max_buffer_size
Bufs == {<<>>, <<7>>, <<1, 2>>, Fill(MaxBufferSize, 9), Fill(MaxBufferSize + 1, 9)}

Keys == {<<>>, <<10, 11>>, <<20, 21, 22>>}

\* declared handshake lengths, equal to and different from the buffer sizes
LenVals(pw) == {Usize(0), Usize(2), Usize(300), Fill(pw, 255)}

Codes == {100, 404, 999}

\* "", "hi", a string over the limit
Strings == {<<>>, <<104, 105>>, Fill(MaxBufferSize + 1, 97)}

RequestMessages(pw) ==
    {Noop}
    \cup {HandshakeInitiator(k, l, b) : k \in HandshakeTypes, l \in LenVals(pw), b \in Bufs}
    \cup {RelayPeer(pk, m) : pk \in Keys, m \in Bufs}

ResponseMessages(pw) ==
    {Noop}
    \cup {Error(c, s) : c \in Codes, s \in Strings}
    \cup {HandshakeResponder(k, l, b) : k \in HandshakeTypes, l \in LenVals(pw), b \in Bufs}
    \cup {RelayPeer(pk, m) : pk \in Keys, m \in Bufs}

Messages(side, pw) ==
    IF side = "request" THEN RequestMessages(pw) ELSE ResponseMessages(pw)

Sides == {"request", "response"}

\* Buffers that did not come out of encode: every tag byte, kind byte,
\* declared length and length prefix is chosen independently of the data
\* that follows it.
Tags == {0, 1, 2, 3, 4, 5, 255}

KindBytes == {0, 1, 2, 3}

Prefixes == {0, 1, 2, MaxBufferSize, MaxBufferSize + 1, 65536}

RawData == {<<>>, <<7>>, <<1, 2>>, Fill(MaxBufferSize, 9)}

RawCodes == {99, 100, 999, 1000}

RawStrings == {<<>>, <<104, 105>>, <<255, 255>>}

RawFrames(pw) ==
    {<<>>}
    \cup {<<t>> : t \in Tags}
    \cup {<<t, k>> \o Pad(l, pw) \o LE(p, 4) \o d :
            t \in Tags, k \in KindBytes, l \in {Usize(0), Usize(300)}, p \in Prefixes, d \in RawData}
    \cup {<<t>> \o LE(p1, 4) \o d1 \o LE(p2, 4) \o d2 :
            t \in Tags, p1 \in {0, 2, MaxBufferSize + 1}, d1 \in {<<>>, <<10, 11>>},
            p2 \in Prefixes, d2 \in RawData}
    \cup {<<t>> \o LE(c, 2) \o LE(p, 4) \o s :
            t \in Tags, c \in RawCodes, p \in {0, 2, MaxBufferSize + 1}, s \in RawStrings}

----------------------------------------------------------------------------
(* The codec as a state machine: a message is encoded and its bytes handed *)
(* to decode, or decode is handed a buffer from elsewhere.                 *)

CodecInit ==
    /\ NoiseIdle
    /\ RelayIdle
    /\ ptr \in PtrWidths
    /\ CodecIdle

\* no call has been made yet
Idle == msg.side = "none" /\ wire = <<>> /\ dec.status = "none"

Encode(side) ==
    /\ Idle
    /\ \E m \in Messages(side, ptr) :
        /\ msg' = [side |-> side, value |-> m]
        /\ enc' = encode(m, side, ptr)
        /\ wire' = enc'.bytes
        /\ dec' = NoDecode
        /\ reenc' = NoEncode
        /\ UNCHANGED <<ptr, noiseVars, relayVars>>

EncodeRequest == Encode("request")

EncodeResponse == Encode("response")

Receive ==
    /\ Idle
    /\ \E b \in RawFrames(ptr) :
        /\ wire' = b
        /\ msg' = [side |-> "none", value |-> NoMessage]
        /\ enc' = NoEncode
        /\ dec' = NoDecode
        /\ reenc' = NoEncode
        /\ UNCHANGED <<ptr, noiseVars, relayVars>>

Decode(side) ==
    /\ dec' = decode(wire, side, ptr)
    /\ reenc' = NoEncode
    /\ UNCHANGED <<ptr, msg, enc, wire, noiseVars, relayVars>>

DecodeRequest == Decode("request")

DecodeResponse == Decode("response")

ReEncode ==
    /\ dec.status = "ok"
    /\ reenc.status = "none"
    /\ reenc' = encode(dec.msg, dec.side, ptr)
    /\ UNCHANGED <<ptr, msg, enc, wire, dec, noiseVars, relayVars>>

CodecNext ==
    \/ EncodeRequest
    \/ EncodeResponse
    \/ Receive
    \/ DecodeRequest
    \/ DecodeResponse
    \/ ReEncode

SpecCodec == CodecInit /\ [][CodecNext]_vars

----------------------------------------------------------------------------
(* Properties of the codec *)

KnownTags == {NOOP, ERROR, HANDSHAKE_INITIATOR, HANDSHAKE_RESPONDER, RELAY_PEER}

\* the last decode call was handed the bytes the last encode call returned
DecodedTheEncoding ==
    /\ enc.status = "ok"
    /\ dec.status # "none"
    /\ dec.side = msg.side
    /\ dec.input = enc.bytes

\* C1: codec round trip.  Every request and response message other than
\* Noop whose encoded form fits the buffer limit decodes, as the same kind
\* of message, to a message equal to it in variant and in every field.
C1_RoundTrip ==
    (/\ DecodedTheEncoding
     /\ msg.value.variant # "Noop"
     /\ Len(enc.bytes) <= MaxBufferSize)
    => (dec.status = "ok" /\ dec.msg = msg.value)

\* a peer handshake with a declared len unlike its buffer made the round trip
C1_Witness ==
    /\ DecodedTheEncoding
    /\ Len(enc.bytes) <= MaxBufferSize
    /\ dec.status = "ok"
    /\ msg.value.variant = "HandshakeInitiator"
    /\ msg.value.kind = "Peer"
    /\ msg.value.buf = <<1, 2>>
    /\ msg.value.len = Usize(300)

\* C2: tag discrimination.  Decoding a buffer whose first byte is not one
\* of the tags 0..4, as a request or as a response, fails with
\* MessageKind carrying exactly that byte.
C2_TagDiscrimination ==
    (/\ dec.status # "none"
     /\ Len(dec.input) >= 1
     /\ dec.input[1] \notin KnownTags)
    => (/\ dec.status = "err"
        /\ dec.msg = NoMessage
        /\ dec.err = "MessageKind"
        /\ dec.tag = dec.input[1])

\* a response frame with tag 255 and a body was refused
C2_Witness ==
    /\ dec.side = "response"
    /\ Len(dec.input) > 1
    /\ dec.input[1] = 255
    /\ dec.status = "err"
    /\ dec.err = "MessageKind"
    /\ dec.tag = 255

\* the u32 at byte offset off of b, 0 when b ends before it
PrefixAt(b, off) ==
    IF off + 4 <= Len(b) THEN U32(SubSeq(b, off + 1, off + 4)) ELSE 0

\* a length prefix of the frame b (handshake buf, RelayPeer public key,
\* RelayPeer message) declares more than the limit
DeclaresOversize(b, pw) ==
    /\ Len(b) >= 1
    /\ \/ /\ b[1] \in {HANDSHAKE_INITIATOR, HANDSHAKE_RESPONDER}
          /\ PrefixAt(b, 2 + pw) > MaxBufferSize
       \/ /\ b[1] = RELAY_PEER
          /\ \/ PrefixAt(b, 1) > MaxBufferSize
             \/ PrefixAt(b, 5 + PrefixAt(b, 1)) > MaxBufferSize

\* C3: size guard.  decode fails, and returns no message, whenever the
\* buffer is longer than the limit or a length prefix inside the frame
\* declares more than the limit.
C3_SizeGuard ==
    (/\ dec.status # "none"
     /\ \/ Len(dec.input) > MaxBufferSize
        \/ DeclaresOversize(dec.input, ptr))
    => (dec.status = "err" /\ dec.msg = NoMessage)

\* C9: Noop is never serialized.  encode of Noop aborts and returns no
\* buffer, no buffer that encode returns starts with tag 0, and no decode
\* call succeeds on a buffer that starts with tag 0.
C9_NoopNeverSerialized ==
    /\ (msg.side # "none" /\ msg.value = Noop)
         => (enc.status = "panic" /\ enc.bytes = <<>>)
    /\ enc.status = "ok" => enc.bytes[1] # NOOP
    /\ reenc.status = "ok" => reenc.bytes[1] # NOOP
    /\ dec.status = "ok" => dec.input[1] # NOOP

\* encode was handed the request Noop and aborted
C9_Witness ==
    /\ msg.side = "request"
    /\ msg.value = Noop
    /\ enc.status = "panic"

IsHandshake(m) == m.variant \in {"HandshakeInitiator", "HandshakeResponder"}

\* C10: the declared len of a handshake frame is preserved and never
\* consulted.  decode reads as many buffer bytes as the u32 prefix says,
\* whatever len is, returns len as it stood in the frame, and encoding the
\* decoded message again yields the bytes of the frame.
C10_DeclaredLenPreserved ==
    (dec.status = "ok" /\ IsHandshake(dec.msg))
    => LET declared == SubSeq(dec.input, 3, 2 + ptr)
           size == U32(SubSeq(dec.input, 3 + ptr, 6 + ptr))
       IN  /\ dec.msg.len = Norm(declared)
           /\ dec.msg.buf = SubSeq(dec.input, 7 + ptr, 6 + ptr + size)
           /\ dec.pos = 6 + ptr + size
           /\ reenc.status # "none" =>
                 (/\ reenc.status = "ok"
                  /\ reenc.bytes = SubSeq(dec.input, 1, dec.pos))

\* a frame declaring len 300 over a one-byte buffer was decoded and
\* encoded again
C10_Witness ==
    /\ dec.status = "ok"
    /\ IsHandshake(dec.msg)
    /\ dec.msg.len = Usize(300)
    /\ Len(dec.msg.buf) = 1
    /\ reenc.status = "ok"

----------------------------------------------------------------------------
(* The relay server between the clients.  A frame in a queue is kept with  *)
(* a note of who sent the request behind it and with which message; the    *)
(* note is never read by the server or the clients.                        *)

\* public keys a request may name: those of the clients and one of a peer
\* that is not connected
TargetKeys == {PublicKey(c) : c \in Clients} \cup {<<90, 3>>}

\* relayed blobs, opaque to the server
Blobs == {<<>>, <<9, 8>>}

\* "not connected"
NotConnected == <<110, 111, 116, 32, 99, 111, 110, 110, 101, 99, 116, 101, 100>>

RelayInit ==
    /\ ptr \in PtrWidths
    /\ CodecIdle
    /\ NoiseIdle
    /\ RelayIdle

\* a client completes its handshake with the server and is registered
Connect(c) ==
    /\ c \notin connected
    /\ connected' = connected \cup {c}
    /\ UNCHANGED <<codecVars, noiseVars, uplink, outbound, inbox, sends>>

\* the connection of a client is torn down: it leaves the registry and its
\* pending frames are discarded
Disconnect(c) ==
    /\ c \in connected
    /\ connected' = connected \ {c}
    /\ uplink' = [uplink EXCEPT ![c] = <<>>]
    /\ outbound' = [outbound EXCEPT ![c] = <<>>]
    /\ UNCHANGED <<codecVars, noiseVars, inbox, sends>>

\* client x sends RelayPeer{public_key: target, message: blob}
ClientSend(x) ==
    /\ x \in connected
    /\ sends < MaxSends
    /\ \E target \in TargetKeys, blob \in Blobs :
        LET e == encode(RelayPeer(target, blob), "request", ptr)
        IN  /\ e.status = "ok"
            /\ uplink' = [uplink EXCEPT ![x] =
                             Append(@, [frame |-> e.bytes, origin |-> x,
                                        sent |-> blob])]
    /\ sends' = sends + 1
    /\ UNCHANGED <<codecVars, noiseVars, connected, outbound, inbox>>

\* the clients registered under the public key that the decoded request d
\* names
Lookup(d) ==
    IF d.status = "ok" /\ d.msg.variant = "RelayPeer"
    THEN {y \in connected : PublicKey(y) = d.msg.public_key}
    ELSE {}

\* Routing of the decoded request d of client x: when the target is in the
\* registry a RelayPeer carrying the public key of the sender and the same
\* blob goes on the queue of the target, when it is absent the sender is
\* sent Error(404).  The result is the set of [to, entry].
Route(x, item, d, targets) ==
    IF targets # {}
    THEN {[to |-> y,
           entry |-> [frame |-> encode(RelayPeer(PublicKey(x), d.msg.message),
                                       "response", ptr).bytes,
                      origin |-> item.origin, sent |-> item.sent]] :
          y \in targets}
    ELSE {[to |-> x,
           entry |-> [frame |-> encode(Error(404, NotConnected),
                                       "response", ptr).bytes,
                      origin |-> "server", sent |-> <<>>]]}

Dispatch(x, item, d) == Route(x, item, d, Lookup(d))

\* the server takes the next request of client x and dispatches it
ServerDispatch(x) ==
    /\ x \in connected
    /\ uplink[x] # <<>>
    /\ \E out \in Dispatch(x, Head(uplink[x]),
                             decode(Head(uplink[x]).frame, "request", ptr)) :
        outbound' = [outbound EXCEPT ![out.to] = Append(@, out.entry)]
    /\ uplink' = [uplink EXCEPT ![x] = Tail(@)]
    /\ UNCHANGED <<codecVars, noiseVars, connected, inbox, sends>>

\* client y takes the next frame off its queue and decodes it
ClientReceive(y) ==
    /\ y \in connected
    /\ outbound[y] # <<>>
    /\ LET item == Head(outbound[y])
           d == decode(item.frame, "response", ptr)
       IN  inbox' = [inbox EXCEPT ![y] =
               Append(@, [status |-> d.status, msg |-> d.msg,
                          origin |-> item.origin, sent |-> item.sent])]
    /\ outbound' = [outbound EXCEPT ![y] = Tail(@)]
    /\ UNCHANGED <<codecVars, noiseVars, connected, uplink, sends>>

RelayNext ==
    \/ \E c \in Clients : Connect(c)
    \/ \E c \in Clients : Disconnect(c)
    \/ \E c \in Clients : ClientSend(c)
    \/ \E c \in Clients : ServerDispatch(c)
    \/ \E c \in Clients : ClientReceive(c)

SpecRelay == RelayInit /\ [][RelayNext]_vars

----------------------------------------------------------------------------
(* Properties of the relay *)

\* C8: sender identity swap.  What a client receives for a RelayPeer
\* request that another client addressed to its public key is a RelayPeer
\* response whose public_key is the public key of the sender, never its own,
\* and whose message is byte for byte the message sent.
C8_SenderIdentitySwap ==
    \A y \in Clients :
        \A i \in 1..Len(inbox[y]) :
            LET r == inbox[y][i]
            IN  r.origin # "server"
                => (/\ r.status = "ok"
                    /\ r.msg.variant = "RelayPeer"
                    /\ r.msg.public_key = PublicKey(r.origin)
                    /\ r.msg.message = r.sent
                    /\ r.origin # y => r.msg.public_key # PublicKey(y))

\* B received the blob <<9, 8>> that A sent to it
C8_Witness ==
    \E i \in 1..Len(inbox["B"]) :
        /\ inbox["B"][i].origin = "A"
        /\ inbox["B"][i].sent = <<9, 8>>
        /\ inbox["B"][i].status = "ok"
        /\ inbox["B"][i].msg = RelayPeer(PublicKey("A"), <<9, 8>>)

====
